---- MODULE Spec2Model ----
(***************************************************************************)
(* Model of bill_cli.py: the BillCalculator class, its tariff table and    *)
(* its load parser.                                                        *)
(*                                                                         *)
(* Numbers.  Python computes the amounts in binary floating point.  The    *)
(* model computes them in exact rational arithmetic (a normalised pair     *)
(* n/d), operation by operation in the order of the source, so every       *)
(* amount of the model is the real number the source's expression denotes  *)
(* before rounding.  Text is a sequence of one-character strings.          *)
(***************************************************************************)
EXTENDS Integers, Sequences, FiniteSets, TLC

VARIABLES
    calc,            \* calc[i]: the fields of calculator object i (self.*)
    category_input,  \* category_input[i]: the category argument __init__ got
    outcome,         \* outcome[i]: "unconstructed", "constructed", or how the
                     \* last calculate_bill call ended
    displayed,       \* displayed[i]: what the last call handed to display_output
    stdout,          \* stdout[i]: the notices object i printed, in order
    calls,           \* calls[i]: number of calculate_bill calls made on i
    RateConstants,   \* the tariff table (enum of RateConfig objects)
    ret              \* the last direct method call: its arguments and result

vars == <<calc, category_input, outcome, displayed, stdout, calls, RateConstants, ret>>

---------------------------------------------------------------------------
(* Bounds of the model *)

\* longest load descriptor given to a direct parse_load call
MaxLen == 5
\* calculate_bill calls made on one calculator
MaxCalls == 2
\* largest adjusted_units given to a direct calculate_energy_and_subsidy call
MaxAdjusted == 104
\* largest number of days given to a direct call
MaxDays == 31
\* loads 0..MaxLoad are given to a direct calculate_excess_load_surcharge call
MaxLoad == 4

---------------------------------------------------------------------------
(* Numbers: exact rationals n/d with d > 0 and gcd(n, d) = 1 *)

Abs(x) == IF x < 0 THEN -x ELSE x

RECURSIVE GCD(_, _)
GCD(a, b) == IF b = 0 THEN a ELSE GCD(b, a % b)

Rat(n, d) ==
    LET g == GCD(Abs(n), Abs(d))
        s == IF d < 0 THEN -1 ELSE 1
    IN  [n |-> s * (n \div g), d |-> s * (d \div g)]

RInt(k) == [n |-> k, d |-> 1]
Zero == RInt(0)

RAdd(a, b) ==
    LET l == (a.d \div GCD(a.d, b.d)) * b.d
    IN  Rat(a.n * (l \div a.d) + b.n * (l \div b.d), l)
RNeg(a) == [n |-> -a.n, d |-> a.d]
RSub(a, b) == RAdd(a, RNeg(b))
RMul(a, b) ==
    LET g1 == GCD(Abs(a.n), b.d)
        g2 == GCD(Abs(b.n), a.d)
    IN  Rat((a.n \div g1) * (b.n \div g2), (a.d \div g2) * (b.d \div g1))
\* a / b for b # 0 (Python raises ZeroDivisionError before dividing by 0)
RDiv(a, b) == RMul(a, Rat(b.d, b.n))
RLe(a, b) == a.n * b.d <= b.n * a.d
RLt(a, b) == a.n * b.d < b.n * a.d

---------------------------------------------------------------------------
(* Optional[...] values: None, or a value *)

Some(x) == [some |-> TRUE, v |-> x]
NoneNum == [some |-> FALSE, v |-> Zero]
NoneInt == [some |-> FALSE, v |-> 0]
NoneStr == [some |-> FALSE, v |-> <<>>]
NoneCat == [some |-> FALSE, v |-> ""]

---------------------------------------------------------------------------
(* The tariff table *)

\* class ConnectionCategory(Enum): the member names
ConnectionCategory == {"DS1D", "DS2D"}

\* an is_valid that ignores case
is_valid_mut_anycase(value) == value \in ConnectionCategory \cup {"ds1d", "ds2d"}

\* ConnectionCategory.is_valid: value in ConnectionCategory.__members__
is_valid(value) == value \in ConnectionCategory

\* @dataclass RateConfig
RateConfig(rate_under_limit, rate_over_limit, subsidy_under_limit, subsidy_over_limit, fixed_charge, limit) ==
    [rate_under_limit    |-> rate_under_limit,
     rate_over_limit     |-> rate_over_limit,
     subsidy_under_limit |-> subsidy_under_limit,
     subsidy_over_limit  |-> subsidy_over_limit,
     fixed_charge        |-> fixed_charge,
     limit               |-> limit]

\* class RateConstants(Enum), as the module creates it
RateTable ==
    [DS1D |-> RateConfig(Rat(742, 100), Rat(895, 100), Rat(497, 100),
                         Rat(511, 100), RInt(40), RInt(50)),
     DS2D |-> RateConfig(Rat(742, 100), Rat(796, 100), Rat(330, 100),
                         Rat(343, 100), RInt(80), RInt(100))]

---------------------------------------------------------------------------
(* The load parser *)

Digits == {"0", "1", "2", "3", "4", "5", "6", "7", "8", "9"}

DigitValue(c) ==
    CASE c = "0" -> 0 [] c = "1" -> 1 [] c = "2" -> 2 [] c = "3" -> 3
      [] c = "4" -> 4 [] c = "5" -> 5 [] c = "6" -> 6 [] c = "7" -> 7
      [] c = "8" -> 8 [] c = "9" -> 9

\* re.findall(r'\d+', text): the maximal digit runs, left to right
RECURSIVE findall_from(_, _, _, _)
findall_from(text, i, run, found) ==
    IF i > Len(text)
    THEN IF run = <<>> THEN found ELSE Append(found, run)
    ELSE IF text[i] \in Digits
         THEN findall_from(text, i + 1, Append(run, text[i]), found)
         ELSE findall_from(text, i + 1, <<>>,
                           IF run = <<>> THEN found ELSE Append(found, run))

findall_digits(text) == findall_from(text, 1, <<>>, <<>>)

\* int(run) of a digit run: its decimal value
RECURSIVE int(_)
int(run) ==
    IF run = <<>> THEN 0
    ELSE 10 * int(SubSeq(run, 1, Len(run) - 1)) + DigitValue(run[Len(run)])

min(values) == CHOOSE m \in {values[k] : k \in DOMAIN values} :
                   \A k \in DOMAIN values : m <= values[k]
max(values) == CHOOSE m \in {values[k] : k \in DOMAIN values} :
                   \A k \in DOMAIN values : m >= values[k]

\* a try block that returns the two numbers in the order they appear
parse_load_try_mut_order(load_input) ==
    LET runs   == findall_digits(load_input)
        values == [k \in DOMAIN runs |-> int(runs[k])]
    IN  IF Len(values) # 2
        THEN [exc |-> "ValueError", total_load |-> 0, demanded_load |-> 0]
        ELSE [exc |-> "", total_load |-> values[1], demanded_load |-> values[2]]

\* the body of parse_load's try block: what it returns, or the exception
parse_load_try(load_input) ==
    LET runs   == findall_digits(load_input)
        values == [k \in DOMAIN runs |-> int(runs[k])]
    IN  IF Len(values) # 2
        THEN [exc |-> "ValueError", total_load |-> 0, demanded_load |-> 0]
        ELSE [exc |-> "", total_load |-> max(values), demanded_load |-> min(values)]

LoadNotice == "Invalid load input. Defaulting total and demanded load to 1."

\* parse_load: the try block, and the except ValueError clause
parse_load(load_input) ==
    LET t == parse_load_try(load_input)
    IN  IF t.exc = "ValueError"
        THEN [exc |-> "", total_load |-> 1, demanded_load |-> 1,
              printed |-> <<LoadNotice>>]
        ELSE [exc |-> t.exc, total_load |-> t.total_load,
              demanded_load |-> t.demanded_load, printed |-> <<>>]

---------------------------------------------------------------------------
(* The charges *)

\* days / 30 (true division of two ints)
DayFactor(days) == RDiv(RInt(days), RInt(30))

\* a tiering that charges every unit at the over rate once the limit is passed
calculate_energy_and_subsidy_mut_allover(adjusted_units, days, config) ==
    IF RLe(adjusted_units, config.limit)
    THEN <<RMul(RMul(adjusted_units, config.rate_under_limit), DayFactor(days)),
           RMul(RMul(adjusted_units, config.subsidy_under_limit), DayFactor(days))>>
    ELSE <<RMul(RMul(adjusted_units, config.rate_over_limit), DayFactor(days)),
           RMul(RMul(adjusted_units, config.subsidy_over_limit), DayFactor(days))>>

\* returns <<energy, subsidy>>
calculate_energy_and_subsidy(adjusted_units, days, config) ==
    IF RLe(adjusted_units, config.limit)
    THEN <<RMul(RMul(adjusted_units, config.rate_under_limit), DayFactor(days)),
           RMul(RMul(adjusted_units, config.subsidy_under_limit), DayFactor(days))>>
    ELSE <<RMul(RAdd(RMul(config.limit, config.rate_under_limit),
                     RMul(RSub(adjusted_units, config.limit), config.rate_over_limit)),
                DayFactor(days)),
           RMul(RAdd(RMul(config.limit, config.subsidy_under_limit),
                     RMul(RSub(adjusted_units, config.limit), config.subsidy_over_limit)),
                DayFactor(days))>>

calculate_fixed_charges(demanded_load, days, config) ==
    RMul(RMul(RInt(demanded_load), config.fixed_charge), DayFactor(days))

\* a surcharge without the excess_load > 0 test
calculate_excess_load_surcharge_mut_noguard(total_load, demanded_load, config, days) ==
    LET excess_load == total_load - demanded_load
    IN  RMul(RMul(RMul(config.fixed_charge, RInt(excess_load)), RInt(2)),
             DayFactor(days))

calculate_excess_load_surcharge(total_load, demanded_load, config, days) ==
    LET excess_load == total_load - demanded_load
    IN  IF excess_load > 0
        THEN RMul(RMul(RMul(config.fixed_charge, RInt(excess_load)), RInt(2)),
                  DayFactor(days))
        ELSE Zero

\* a surcharge without the previous_due > 0 test
calculate_dps_mut_noguard(previous_due) == RMul(previous_due, Rat(15, 1000))

calculate_dps(previous_due) ==
    IF RLt(Zero, previous_due) THEN RMul(previous_due, Rat(15, 1000)) ELSE Zero

calculate_electricity_duty(energy_amount) == RMul(energy_amount, Rat(6, 100))

\* the ten values display_output is given, by parameter name
BreakdownFields ==
    {"energy", "subsidy", "net_bill", "dps", "fixed", "excess", "duty", "total",
     "prev_due", "final"}

display_output(energy, subsidy, net_bill, dps, fixed, excess, duty, total, prev_due, final) ==
    [f \in BreakdownFields |->
        CASE f = "energy"   -> energy
          [] f = "subsidy"  -> subsidy
          [] f = "net_bill" -> net_bill
          [] f = "dps"      -> dps
          [] f = "fixed"    -> fixed
          [] f = "excess"   -> excess
          [] f = "duty"     -> duty
          [] f = "total"    -> total
          [] f = "prev_due" -> prev_due
          [] f = "final"    -> final]

\* nothing displayed
NoBreakdown == [f \in {} |-> Zero]

---------------------------------------------------------------------------
(* The calculator *)

CategoryNotice == "Invalid category! Defaulting to DS2D."

\* truth value of an Optional[str]: None and '' are false
Truthy(category) == category.some /\ category.v # ""

\* __init__: the object's fields, and what the constructor prints
BillCalculator(category, units, days, load_input, previous_due) ==
    [self |-> [category     |-> IF Truthy(category) /\ is_valid(category.v)
                                THEN category.v ELSE "DS2D",
               units        |-> units,
               days         |-> days,
               load_input   |-> load_input,
               previous_due |-> previous_due],
     printed |-> IF Truthy(category) /\ ~is_valid(category.v)
                 THEN <<CategoryNotice>> ELSE <<>>]

\* a test that forgets previous_due
missing_input_mut_three(self) ==
    ~self.units.some \/ ~self.days.some \/ ~self.load_input.some

\* None in (self.units, self.days, self.load_input, self.previous_due)
missing_input(self) ==
    ~self.units.some \/ ~self.days.some \/ ~self.load_input.some
    \/ ~self.previous_due.some

\* units taken as they are, not normalised to 30 days
adjusted_units_mut_raw(units, days) == units

\* (self.units / self.days) * 30, for days # 0
adjusted_units(units, days) == RMul(RDiv(units, RInt(days)), RInt(30))

\* a total that leaves out the excess load surcharge
aggregate_mut_noexcess(energy_amount, subsidy_amount, fixed_charges, excess_load_surcharge, delayed_payment_surcharge, electricity_duty, previous_due) ==
    LET net_bill_after_subsidy == RSub(energy_amount, subsidy_amount)
        total_due == RAdd(RAdd(RAdd(net_bill_after_subsidy, fixed_charges),
                               electricity_duty), delayed_payment_surcharge)
        final_amount_due == RAdd(total_due, previous_due)
    IN  display_output(energy_amount, subsidy_amount, net_bill_after_subsidy,
                       delayed_payment_surcharge, fixed_charges,
                       excess_load_surcharge, electricity_duty, total_due,
                       previous_due, final_amount_due)

\* lines 76-83 of calculate_bill: the three sums, and the display
aggregate(energy_amount, subsidy_amount, fixed_charges, excess_load_surcharge, delayed_payment_surcharge, electricity_duty, previous_due) ==
    LET net_bill_after_subsidy == RSub(energy_amount, subsidy_amount)
        total_due == RAdd(RAdd(RAdd(RAdd(net_bill_after_subsidy, fixed_charges),
                                    electricity_duty), delayed_payment_surcharge),
                          excess_load_surcharge)
        final_amount_due == RAdd(total_due, previous_due)
    IN  display_output(energy_amount, subsidy_amount, net_bill_after_subsidy,
                       delayed_payment_surcharge, fixed_charges,
                       excess_load_surcharge, electricity_duty, total_due,
                       previous_due, final_amount_due)

\* calculate_bill on an object with fields self, under tariff table rates:
\* the exception that ends it (or ""), the notices printed, the values
\* displayed, and the object's fields afterwards
calculate_bill(self, rates) ==
    IF missing_input(self)
    THEN [exc |-> "ValueError", printed |-> <<>>, shown |-> NoBreakdown,
          self |-> self]
    ELSE
    LET load == parse_load(self.load_input.v)
    IN  IF self.category \notin DOMAIN rates
        THEN [exc |-> "KeyError", printed |-> load.printed,
              shown |-> NoBreakdown, self |-> self]
        ELSE IF self.days.v = 0
        THEN [exc |-> "ZeroDivisionError", printed |-> load.printed,
              shown |-> NoBreakdown, self |-> self]
        ELSE
        LET config == rates[self.category]
            days   == self.days.v
            adj    == adjusted_units(self.units.v, days)
            es     == calculate_energy_and_subsidy(adj, days, config)
            fixed_charges == calculate_fixed_charges(load.demanded_load, days, config)
            excess_load_surcharge ==
                calculate_excess_load_surcharge(load.total_load,
                                                load.demanded_load, config, days)
            delayed_payment_surcharge == calculate_dps(self.previous_due.v)
            electricity_duty == calculate_electricity_duty(es[1])
        IN  [exc |-> "", printed |-> load.printed,
             shown |-> aggregate(es[1], es[2], fixed_charges,
                                 excess_load_surcharge,
                                 delayed_payment_surcharge, electricity_duty,
                                 self.previous_due.v),
             self |-> self]

---------------------------------------------------------------------------
(* State and operations *)

\* the slot of an object not yet constructed
NoObject == BillCalculator(NoneCat, NoneNum, NoneInt, NoneStr, NoneNum).self

\* calc = BillCalculator(a.category, a.units, a.days, a.load_input, a.previous_due)
New(i, a) ==
    LET r == BillCalculator(a.category, a.units, a.days, a.load_input, a.previous_due)
    IN  /\ outcome[i] = "unconstructed"
        /\ calc' = [calc EXCEPT ![i] = r.self]
        /\ category_input' = [category_input EXCEPT ![i] = a.category]
        /\ outcome' = [outcome EXCEPT ![i] = "constructed"]
        /\ stdout' = [stdout EXCEPT ![i] = r.printed]
        /\ UNCHANGED <<displayed, calls, RateConstants, ret>>

\* a calculate_bill that keeps the normalised units in self.units
CalculateBill_mut_store(i) ==
    LET r == calculate_bill(calc[i], RateConstants)
    IN  /\ outcome[i] # "unconstructed"
        /\ calls[i] < MaxCalls
        /\ calc' = [calc EXCEPT ![i] =
                       IF r.exc = ""
                       THEN [r.self EXCEPT !.units =
                                Some(adjusted_units(r.self.units.v, r.self.days.v))]
                       ELSE r.self]
        /\ outcome' = [outcome EXCEPT ![i] = IF r.exc = "" THEN "displayed" ELSE r.exc]
        /\ displayed' = [displayed EXCEPT ![i] = r.shown]
        /\ stdout' = [stdout EXCEPT ![i] = stdout[i] \o r.printed]
        /\ calls' = [calls EXCEPT ![i] = calls[i] + 1]
        /\ UNCHANGED <<category_input, RateConstants, ret>>

\* calc.calculate_bill()
CalculateBill(i) ==
    LET r == calculate_bill(calc[i], RateConstants)
    IN  /\ outcome[i] # "unconstructed"
        /\ calls[i] < MaxCalls
        /\ calc' = [calc EXCEPT ![i] = r.self]
        /\ outcome' = [outcome EXCEPT ![i] = IF r.exc = "" THEN "displayed" ELSE r.exc]
        /\ displayed' = [displayed EXCEPT ![i] = r.shown]
        /\ stdout' = [stdout EXCEPT ![i] = stdout[i] \o r.printed]
        /\ calls' = [calls EXCEPT ![i] = calls[i] + 1]
        /\ UNCHANGED <<category_input, RateConstants, ret>>

\* a direct method call: its arguments, and once it has returned (done) its
\* result val (numbers as numerator, denominator) and what it printed
Call(op, text, nums, cat) ==
    [op |-> op, text |-> text, nums |-> nums, cat |-> cat, done |-> FALSE,
     val |-> <<>>, printed |-> <<>>]
NoCall == Call("", <<>>, <<>>, "")

\* calc.parse_load(ret.text)
ParseLoadCall ==
    LET r == parse_load(ret.text)
    IN  /\ ret.op = "parse_load" /\ ~ret.done
        /\ ret' = [ret EXCEPT !.done = TRUE, !.printed = r.printed,
                              !.val = IF r.exc = ""
                                      THEN <<r.total_load, r.demanded_load>>
                                      ELSE <<>>]
        /\ UNCHANGED <<calc, category_input, outcome, displayed, stdout, calls, RateConstants>>

\* calc.calculate_energy_and_subsidy(adjusted_units, days, RateConstants[cat].value)
EnergyCall ==
    LET r == calculate_energy_and_subsidy(RInt(ret.nums[1]), ret.nums[2],
                                          RateConstants[ret.cat])
    IN  /\ ret.op = "calculate_energy_and_subsidy" /\ ~ret.done
        /\ ret' = [ret EXCEPT !.done = TRUE,
                              !.val = <<r[1].n, r[1].d, r[2].n, r[2].d>>]
        /\ UNCHANGED <<calc, category_input, outcome, displayed, stdout, calls, RateConstants>>

\* calc.calculate_excess_load_surcharge(total_load, demanded_load,
\*                                      RateConstants[cat].value, days)
ExcessCall ==
    LET r == calculate_excess_load_surcharge(ret.nums[1], ret.nums[2],
                                             RateConstants[ret.cat], ret.nums[3])
    IN  /\ ret.op = "calculate_excess_load_surcharge" /\ ~ret.done
        /\ ret' = [ret EXCEPT !.done = TRUE, !.val = <<r.n, r.d>>]
        /\ UNCHANGED <<calc, category_input, outcome, displayed, stdout, calls, RateConstants>>

---------------------------------------------------------------------------
(* Inputs *)

CtorArgs(C, U, D, L, P) ==
    [category : C, units : U, days : D, load_input : L, previous_due : P]

CategoryArgs ==
    {NoneCat, Some("DS1D"), Some("DS2D"), Some("ds1d"), Some("DS3D"), Some("")}
UnitsArgs ==
    {NoneNum, Some(Rat(25, 2))} \cup {Some(RInt(u)) : u \in {0, 30, 50, 51, 80, 300}}
DaysArgs == {NoneInt} \cup {Some(d) : d \in {-30, 0, 7, 15, 30, 60}}
LoadArgs ==
    {NoneStr, Some(<<"1", "0", "0", ",", "8", "0">>), Some(<<"a", "b", "c">>),
     Some(<<"5">>), Some(<<"3", " ", "5">>)}
DueArgs == {NoneNum} \cup {Some(RInt(p)) : p \in {-100, 0, 100, 500}}
Args == CtorArgs(CategoryArgs, UnitsArgs, DaysArgs, LoadArgs, DueArgs)

\* the smaller inputs of the specification with two calculators
Args2 ==
    CtorArgs({Some("DS1D"), Some("")}, {Some(RInt(30)), Some(RInt(300))},
             {Some(0), Some(15)}, {Some(<<"3", " ", "5">>), Some(<<"a", "b", "c">>)},
             {NoneNum, Some(RInt(500))})

\* the direct calls
Alphabet == {"0", "1", "7", ",", "-"}
Texts == UNION {[1..n -> Alphabet] : n \in 0..MaxLen}
LoadValues == 0..MaxLoad \cup {80, 100}
Calls ==
    {Call("parse_load", text, <<>>, "") : text \in Texts}
    \cup {Call("calculate_energy_and_subsidy", <<>>, <<n[1], n[2]>>, c) :
            n \in (0..MaxAdjusted) \X (1..MaxDays), c \in ConnectionCategory}
    \cup {Call("calculate_excess_load_surcharge", <<>>, <<n[1], n[2], n[3]>>, c) :
            n \in LoadValues \X LoadValues \X (1..MaxDays), c \in ConnectionCategory}

---------------------------------------------------------------------------
(* Specifications *)

InitObjects(ids) ==
    /\ calc = [i \in ids |-> NoObject]
    /\ category_input = [i \in ids |-> NoneCat]
    /\ outcome = [i \in ids |-> "unconstructed"]
    /\ displayed = [i \in ids |-> NoBreakdown]
    /\ stdout = [i \in ids |-> <<>>]
    /\ calls = [i \in ids |-> 0]
    /\ RateConstants = RateTable
    /\ ret = NoCall

Construct == \E i \in DOMAIN calc : outcome[i] = "unconstructed" /\ \E a \in Args : New(i, a)
Construct2 == \E i \in DOMAIN calc : outcome[i] = "unconstructed" /\ \E a \in Args2 : New(i, a)
Calculate == \E i \in DOMAIN calc : CalculateBill(i)

\* one calculator, as run_cli makes it
Init == InitObjects({1})
Next == Construct \/ Calculate
Spec == Init /\ [][Next]_vars

\* two calculators, used in any order
InitMulti == InitObjects({1, 2})
NextMulti == Construct2 \/ Calculate
SpecMulti == InitMulti /\ [][NextMulti]_vars

\* one default calculator, BillCalculator(), and one direct call of a method
InitCall ==
    /\ calc = [i \in {1} |-> BillCalculator(NoneCat, NoneNum, NoneInt, NoneStr, NoneNum).self]
    /\ category_input = [i \in {1} |-> NoneCat]
    /\ outcome = [i \in {1} |-> "constructed"]
    /\ displayed = [i \in {1} |-> NoBreakdown]
    /\ stdout = [i \in {1} |-> <<>>]
    /\ calls = [i \in {1} |-> 0]
    /\ RateConstants = RateTable
    /\ ret \in Calls
NextCall == ParseLoadCall \/ EnergyCall \/ ExcessCall
SpecCall == InitCall /\ [][NextCall]_vars

---------------------------------------------------------------------------
(* Properties *)

Objects == DOMAIN calc
Called(i) == calls[i] > 0
AllPresent(i) ==
    /\ calc[i].units.some /\ calc[i].days.some
    /\ calc[i].load_input.some /\ calc[i].previous_due.some
RMin(a, b) == IF RLe(a, b) THEN a ELSE b
RMax(a, b) == IF RLe(a, b) THEN b ELSE a
Sum5(a, b, c, d, e) == RAdd(a, RAdd(b, RAdd(c, RAdd(d, e))))

\* C1: a calculation with all four inputs present and days >= 1 completes, and
\* its breakdown satisfies net_bill = energy - subsidy,
\* total = net_bill + fixed + duty + dps + excess and final = total + previous_due.
C1_Decomposition ==
    \A i \in Objects :
        (Called(i) /\ AllPresent(i) /\ calc[i].days.v >= 1) =>
            LET b == displayed[i]
            IN  /\ outcome[i] = "displayed"
                /\ DOMAIN b = BreakdownFields
                /\ b["net_bill"] = RSub(b["energy"], b["subsidy"])
                /\ b["total"] = Sum5(b["net_bill"], b["fixed"], b["duty"],
                                     b["dps"], b["excess"])
                /\ b["prev_due"] = calc[i].previous_due.v
                /\ b["final"] = RAdd(b["total"], calc[i].previous_due.v)

\* a completed calculation whose five components are all non-zero, made under
\* an unknown category name
C1_Witness ==
    \E i \in Objects :
        /\ outcome[i] = "displayed" /\ calc[i].days.v >= 1
        /\ category_input[i] = Some("DS3D")
        /\ \A f \in {"net_bill", "fixed", "duty", "dps", "excess"} :
               displayed[i][f].n > 0

\* C2: with units, load descriptor and previous_due present and days <= 0,
\* calculate_bill ends in an error and displays no breakdown.
C2_NonPositiveDaysRejected ==
    \A i \in Objects :
        (Called(i) /\ AllPresent(i) /\ calc[i].days.v <= 0) =>
            /\ outcome[i] \in {"ValueError", "ZeroDivisionError"}
            /\ displayed[i] = NoBreakdown

\* C3: if any of units, days, load descriptor or previous_due is None,
\* calculate_bill ends in ValueError before the load is parsed (no load notice
\* is printed) and displays nothing; and no call ever displays only some of
\* the ten breakdown fields.
C3_MissingInputAborts ==
    \A i \in Objects :
        /\ (Called(i) /\ ~AllPresent(i)) =>
               /\ outcome[i] = "ValueError"
               /\ displayed[i] = NoBreakdown
               /\ \A k \in DOMAIN stdout[i] : stdout[i][k] # LoadNotice
        /\ DOMAIN displayed[i] \in {{}, BreakdownFields}
        /\ (outcome[i] # "displayed") => displayed[i] = NoBreakdown

\* a call with only previous_due missing and a malformed load descriptor
C3_Witness ==
    \E i \in Objects :
        /\ Called(i) /\ outcome[i] = "ValueError"
        /\ calc[i].units.some /\ calc[i].days.some /\ calc[i].days.v >= 1
        /\ calc[i].load_input = Some(<<"a", "b", "c">>)
        /\ ~calc[i].previous_due.some

\* the digit runs of a text, by position
RunStarts(text) ==
    {k \in 1..Len(text) : text[k] \in Digits /\ (k = 1 \/ text[k - 1] \notin Digits)}
RunEnd(text, k) ==
    CHOOSE j \in k..Len(text) :
        /\ \A m \in k..j : text[m] \in Digits
        /\ (j = Len(text) \/ text[j + 1] \notin Digits)
RECURSIVE Pow10(_)
Pow10(e) == IF e = 0 THEN 1 ELSE 10 * Pow10(e - 1)
RECURSIVE Decimal(_, _, _)
Decimal(text, k, j) ==
    IF k > j THEN 0
    ELSE DigitValue(text[k]) * Pow10(j - k) + Decimal(text, k + 1, j)
RunValues(text) == {Decimal(text, k, RunEnd(text, k)) : k \in RunStarts(text)}

\* C4: parse_load never raises; a text with exactly two maximal digit runs
\* gives (max, min) of the two integers, any other text gives (1, 1) with a
\* notice; so total_load >= demanded_load >= 0.
C4_ParseLoad ==
    (ret.op = "parse_load" /\ ret.done) =>
        /\ Len(ret.val) = 2
        /\ IF Cardinality(RunStarts(ret.text)) = 2
           THEN LET vs == RunValues(ret.text)
                IN  /\ ret.val[1] \in vs /\ ret.val[2] \in vs
                    /\ \A v \in vs : ret.val[2] <= v /\ v <= ret.val[1]
                    /\ ret.printed = <<>>
           ELSE ret.val = <<1, 1>> /\ ret.printed = <<LoadNotice>>
        /\ ret.val[1] >= ret.val[2] /\ ret.val[2] >= 0

\* "7,10": the smaller number comes first
C4_Witness ==
    /\ ret.op = "parse_load" /\ ret.done
    /\ ret.text = <<"7", ",", "1", "0">>
    /\ ret.val = <<10, 7>>

KnownCategoryName(c) == c.some /\ c.v \in {"DS1D", "DS2D"}

\* C5 as stated: a known name (exact case) is used; every other string, the
\* empty one included, gives DS2D and the notice; the category always has a
\* tariff entry and the lookup never fails.
C5_EveryOtherStringNoticed ==
    \A i \in Objects :
        (outcome[i] # "unconstructed" /\ category_input[i].some) =>
            LET c == category_input[i]
            IN  /\ KnownCategoryName(c) => calc[i].category = c.v
                /\ ~KnownCategoryName(c) =>
                       /\ calc[i].category = "DS2D"
                       /\ Len(stdout[i]) >= 1 /\ stdout[i][1] = CategoryNotice
                /\ calc[i].category \in DOMAIN RateConstants
                /\ outcome[i] # "KeyError"

\* C5 amended: a known name (exact case) is used without notice; every other
\* non-empty string gives DS2D and the notice; the empty string gives DS2D
\* without a notice; the category always has a tariff entry and the lookup
\* never fails.
C5_CategoryResolution ==
    \A i \in Objects :
        (outcome[i] # "unconstructed" /\ category_input[i].some) =>
            LET c == category_input[i]
                noticed == \E k \in DOMAIN stdout[i] : stdout[i][k] = CategoryNotice
            IN  /\ KnownCategoryName(c) => calc[i].category = c.v /\ ~noticed
                /\ (~KnownCategoryName(c) /\ c.v # "") =>
                       /\ calc[i].category = "DS2D"
                       /\ Len(stdout[i]) >= 1 /\ stdout[i][1] = CategoryNotice
                /\ c.v = "" => calc[i].category = "DS2D" /\ ~noticed
                /\ calc[i].category \in DOMAIN RateConstants
                /\ outcome[i] # "KeyError"

\* a bill computed for a calculator made with the empty category string
C5_Witness ==
    \E i \in Objects :
        /\ category_input[i] = Some("")
        /\ outcome[i] = "displayed"
        /\ calc[i].category = "DS2D"
        /\ stdout[i] = <<>>

\* a direct call's rational result and arguments
RetNum(k) == Rat(ret.val[2 * k - 1], ret.val[2 * k])
Tiered(units, limit, under, over, days) ==
    RDiv(RMul(RAdd(RMul(RMin(units, limit), under),
                   RMul(RMax(RSub(units, limit), Zero), over)),
              RInt(days)), RInt(30))

\* C6: calculate_energy_and_subsidy charges min(adjusted_units, limit) units at
\* the under rate and the units above the limit at the over rate, scaled by
\* days/30, so adjusted_units = limit is charged at the under rate alone; for
\* DS1D and 30 days, 50 units cost 50 x 7.42 and 51 cost 50 x 7.42 + 8.95.
C6_TieredEnergy ==
    (ret.op = "calculate_energy_and_subsidy" /\ ret.done) =>
        LET a   == RInt(ret.nums[1])
            d   == ret.nums[2]
            cfg == RateTable[ret.cat]
        IN  /\ RetNum(1) = Tiered(a, cfg.limit, cfg.rate_under_limit,
                                  cfg.rate_over_limit, d)
            /\ RetNum(2) = Tiered(a, cfg.limit, cfg.subsidy_under_limit,
                                  cfg.subsidy_over_limit, d)
            /\ RLe(a, cfg.limit) =>
                   RetNum(1) = RDiv(RMul(RMul(a, cfg.rate_under_limit), RInt(d)), RInt(30))
            /\ (ret.cat = "DS1D" /\ d = 30 /\ ret.nums[1] = 50) =>
                   RetNum(1) = Rat(50 * 742, 100)
            /\ (ret.cat = "DS1D" /\ d = 30 /\ ret.nums[1] = 51) =>
                   RetNum(1) = Rat(50 * 742 + 895, 100)

\* DS1D, 51 units, 30 days: 379.95
C6_Witness ==
    /\ ret.op = "calculate_energy_and_subsidy" /\ ret.done
    /\ ret.cat = "DS1D" /\ ret.nums = <<51, 30>>
    /\ RetNum(1) = Rat(37995, 100)

\* C7: the excess load surcharge is fixed_charge x (total_load - demanded_load)
\* x 2 x days/30 when total_load > demanded_load and 0 otherwise, never
\* negative; DS2D, 30 days: 100 vs 80 gives 3200, 80 vs 100 gives 0.
C7_ExcessSurcharge ==
    (ret.op = "calculate_excess_load_surcharge" /\ ret.done) =>
        LET tl  == ret.nums[1]
            dl  == ret.nums[2]
            d   == ret.nums[3]
            cfg == RateTable[ret.cat]
            over == IF tl - dl > 0 THEN tl - dl ELSE 0
        IN  /\ RetNum(1) = RDiv(RMul(cfg.fixed_charge, RInt(over * 2 * d)), RInt(30))
            /\ tl <= dl => RetNum(1) = Zero
            /\ RetNum(1).n >= 0
            /\ (ret.cat = "DS2D" /\ d = 30 /\ tl = 100 /\ dl = 80) => RetNum(1) = RInt(3200)
            /\ (ret.cat = "DS2D" /\ d = 30 /\ tl = 80 /\ dl = 100) => RetNum(1) = Zero

\* DS2D, total 80 below demanded 100
C7_Witness ==
    /\ ret.op = "calculate_excess_load_surcharge" /\ ret.done
    /\ ret.cat = "DS2D" /\ ret.nums = <<80, 100, 30>>
    /\ ret.val = <<0, 1>>

\* C8: the delayed payment surcharge is previous_due x 0.015 for a positive
\* previous_due and 0 otherwise, never negative (-100 gives 0, 100 gives 1.5),
\* and previous_due, negative or not, enters final = total + previous_due.
C8_DelayedPaymentSurcharge ==
    \A i \in Objects :
        outcome[i] = "displayed" =>
            LET b == displayed[i]
                p == calc[i].previous_due.v
            IN  /\ b["dps"] = RDiv(RMul(RMax(p, Zero), RInt(15)), RInt(1000))
                /\ p.n <= 0 => b["dps"] = Zero
                /\ b["dps"].n >= 0
                /\ p = RInt(-100) => b["dps"] = Zero
                /\ p = RInt(100) => b["dps"] = Rat(3, 2)
                /\ b["prev_due"] = p
                /\ b["final"] = RAdd(b["total"], p)

\* a credit of 100: no surcharge, and the credit is taken off the total
C8_Witness ==
    \E i \in Objects :
        /\ outcome[i] = "displayed"
        /\ calc[i].previous_due = Some(RInt(-100))
        /\ displayed[i]["dps"] = Zero
        /\ displayed[i]["final"] = RSub(displayed[i]["total"], RInt(100))

\* C9: calculate_bill leaves the fields of every calculator and the tariff
\* table unchanged, whether it completes or aborts; calling it again on the
\* same object, or on another object with the same fields, in any order,
\* ends the same way with the same breakdown.
C9_FrameAndDeterminism ==
    [][/\ \A i \in Objects : outcome[i] # "unconstructed" => calc'[i] = calc[i]
       /\ RateConstants' = RateConstants
       /\ \A i \in Objects :
              (Called(i) /\ calls'[i] > calls[i]) =>
                  outcome'[i] = outcome[i] /\ displayed'[i] = displayed[i]
       /\ \A i, j \in Objects :
              (calls'[i] > 0 /\ calls'[j] > 0 /\ calc'[i] = calc'[j]) =>
                  outcome'[i] = outcome'[j] /\ displayed'[i] = displayed'[j]]_vars

\* two calculators with the same fields, one used twice and one once
C9_Witness ==
    /\ calls[1] >= 2 /\ calls[2] = 1
    /\ calc[1] = calc[2]
    /\ outcome[1] = "displayed" /\ outcome[2] = "displayed"
    /\ displayed[1] = displayed[2]
    /\ displayed[1] # NoBreakdown

\* C10: for units >= 0 and days >= 1 the energy and subsidy amounts of a bill
\* equal tiered pricing of the raw units against the pro-rated limit
\* L = limit x days/30: units x under when units <= L, else
\* L x under + (units - L) x over.
C10_ProRatedLimit ==
    \A i \in Objects :
        (outcome[i] = "displayed" /\ calc[i].units.v.n >= 0 /\ calc[i].days.v >= 1) =>
            LET u   == calc[i].units.v
                cfg == RateTable[calc[i].category]
                L   == RDiv(RMul(cfg.limit, RInt(calc[i].days.v)), RInt(30))
                straight(under, over) ==
                    IF RLe(u, L) THEN RMul(u, under)
                    ELSE RAdd(RMul(L, under), RMul(RSub(u, L), over))
            IN  /\ displayed[i]["energy"] =
                       straight(cfg.rate_under_limit, cfg.rate_over_limit)
                /\ displayed[i]["subsidy"] =
                       straight(cfg.subsidy_under_limit, cfg.subsidy_over_limit)

\* DS1D, 15 days, 30 units: below the limit of 50, yet 5 units are charged at
\* the over rate
C10_Witness ==
    \E i \in Objects :
        /\ outcome[i] = "displayed"
        /\ calc[i].category = "DS1D"
        /\ calc[i].units = Some(RInt(30)) /\ calc[i].days = Some(15)
        /\ displayed[i]["energy"] = Rat(25 * 742 + 5 * 895, 100)
        /\ displayed[i]["energy"] # RMul(RInt(30), Rat(742, 100))

====
